---- MODULE Spec2Model ----
(***************************************************************************)
(* The tool gateway of mcp-server.py: the tool catalog (handle_list_tools) *)
(* and the dispatcher (handle_call_tool) with its three handlers, run as   *)
(* coroutines on the single-threaded event loop started by main.           *)
(*                                                                         *)
(* Python values are records [t, s, i]: t is the Python type name, s the   *)
(* value of a str, i the value of an int.  Texts are TLA+ strings built    *)
(* with \o exactly where the code builds them with f-strings.              *)
(***************************************************************************)
EXTENDS Integers, Sequences, FiniteSets, TLC

VARIABLES pending, arrived, served, tasks, running, listed, listedAfter

vars == <<pending, arrived, served, tasks, running, listed, listedAfter>>

(* ------------------------------ bounds --------------------------------- *)

\* Requests the transport delivers in one run of the server.
MaxRequests == 3

\* Handler coroutines the event loop can hold at once.
MaxTasks == 2

(* --------------------------- Python values ----------------------------- *)

PyStr(s) == [t |-> "str", s |-> s, i |-> 0]
PyInt(i) == [t |-> "int", s |-> "", i |-> i]
PyNone == [t |-> "NoneType", s |-> "", i |-> 0]

Digit(d) ==
    CASE d = 0 -> "0" [] d = 1 -> "1" [] d = 2 -> "2" [] d = 3 -> "3"
      [] d = 4 -> "4" [] d = 5 -> "5" [] d = 6 -> "6" [] d = 7 -> "7"
      [] d = 8 -> "8" [] d = 9 -> "9"

RECURSIVE NatToStr(_)
NatToStr(n) ==
    IF n < 10 THEN Digit(n) ELSE NatToStr(n \div 10) \o Digit(n % 10)

\* str(x), also what an f-string field {x} yields for these types.
str(v) ==
    CASE v.t = "str" -> v.s
      [] v.t = "int" -> IF v.i < 0 THEN "-" \o NatToStr(-v.i) ELSE NatToStr(v.i)
      [] v.t = "NoneType" -> "None"

\* dict.get(key, default)
get(arguments, key, default) ==
    IF key \in DOMAIN arguments THEN arguments[key] ELSE default

(* ------------------------- inputs and environment ---------------------- *)

KnownTools == {"query_db", "get_project_status", "analyze_logs"}
ToolNames == KnownTools \cup {"list_files", "QUERY_DB"}

Keys == {"query", "database", "service", "lines"}

ArgVals(k) ==
    CASE k = "query" -> {PyStr("SELECT 1"), PyInt(7)}
      [] k = "database" -> {PyStr("testdb")}
      [] k = "service" -> {PyStr("backend"), PyStr("frontend"),
                           PyStr("prediction-engine"), PyStr("db"),
                           PyStr("cache")}
      [] k = "lines" -> {PyInt(10), PyInt(125)}

AllVals == UNION {ArgVals(k) : k \in Keys}

\* Every argument mapping: any subset of the keys may be omitted.
ArgMaps ==
    UNION {{f \in [D -> AllVals] : \A k \in D : f[k] \in ArgVals(k)} :
           D \in SUBSET Keys}

NoArgs == [k \in {} |-> PyNone]

ReturnCodes == {0, 1, -9}
Stdouts == {"", "rows: 3"}
Stderrs == {"", "syntax error"}

\* subprocess.CompletedProcess: what a finished external process leaves.
Outcomes == [returncode : ReturnCodes, stdout : Stdouts, stderr : Stderrs]

\* The process cannot be spawned (no docker binary, no permission).
SpawnFaults ==
    {[cls |-> "FileNotFoundError",
      msg |-> "[Errno 2] No such file or directory: 'docker'"],
     [cls |-> "PermissionError",
      msg |-> "[Errno 13] Permission denied: 'docker'"]}

\* The project document cannot be read.
OpenFaults ==
    {[cls |-> "FileNotFoundError",
      msg |-> "[Errno 2] No such file or directory: '/home/jayjag/Nextcloud/intellacc.com/CLAUDE.md'"]}

\* subprocess.run refuses an argv element that is not a str, before any fork.
ArgvFault(v) ==
    [cls |-> "TypeError",
     msg |-> "expected str, bytes or os.PathLike object, not " \o v.t]

(* ----------------------------- tool catalog ---------------------------- *)

\* types.Tool(...): name, the properties of its input schema, the required.
query_db_tool ==
    [name |-> "query_db", properties |-> {"query", "database"},
     required |-> {"query"}]

get_project_status_tool ==
    [name |-> "get_project_status", properties |-> {}, required |-> {}]

analyze_logs_tool ==
    [name |-> "analyze_logs", properties |-> {"service", "lines"},
     required |-> {"service"}]

\* Variant: a catalog that drops its last tool once a call has been served.
handle_list_tools_shrinking ==
    IF served = 0
    THEN <<query_db_tool, get_project_status_tool, analyze_logs_tool>>
    ELSE <<query_db_tool, get_project_status_tool>>

\* The list handle_list_tools builds on every call.
handle_list_tools ==
    <<query_db_tool, get_project_status_tool, analyze_logs_tool>>

(* ------------------------------ dispatcher ----------------------------- *)

\* Variant: the last elif written as the default branch.
Branch_last_default(name) ==
    IF name = "query_db" THEN "query_db"
    ELSE IF name = "get_project_status" THEN "get_project_status"
    ELSE "analyze_logs"

\* The if / elif / else chain on the tool name.
Branch(name) ==
    IF name = "query_db" THEN "query_db"
    ELSE IF name = "get_project_status" THEN "get_project_status"
    ELSE IF name = "analyze_logs" THEN "analyze_logs"
    ELSE "else"

TextContent(text) == [type |-> "text", text |-> text]

\* Variant: except OSError.
except_OSError(e) == e.cls \in {"FileNotFoundError", "PermissionError"}

\* except Exception: the classes it catches.
except_Exception(e) ==
    e.cls \in {"TypeError", "FileNotFoundError", "PermissionError"}

\* The text of a handler's except clause.
error_text(name, e) ==
    CASE name = "query_db" -> "Error executing query: " \o e.msg
      [] name = "get_project_status" -> "Error getting project status: " \o e.msg
      [] name = "analyze_logs" -> "Error analyzing logs: " \o e.msg

unknown_tool(name) == "Unknown tool: " \o name

(* query_db *)

DefaultDatabase == PyStr("intellaccdb")

\* Variant: arguments.get("query", "").
query_arg_empty(arguments) == get(arguments, "query", PyStr(""))

query_arg(arguments) == get(arguments, "query", PyNone)

database_arg(arguments) == get(arguments, "database", DefaultDatabase)

query_db_cmd(arguments) ==
    <<PyStr("docker"), PyStr("exec"), PyStr("intellacc_db"),
      PyStr("psql"), PyStr("-U"), PyStr("intellacc_user"),
      PyStr("-d"), database_arg(arguments),
      PyStr("-c"), query_arg(arguments)>>

\* Variant: only a negative return code counts as failure.
query_db_result_nonneg(result) ==
    IF result.returncode >= 0
    THEN "Query executed successfully:\n\n" \o result.stdout
    ELSE "Query failed:\n" \o result.stderr

query_db_result(result) ==
    IF result.returncode = 0
    THEN "Query executed successfully:\n\n" \o result.stdout
    ELSE "Query failed:\n" \o result.stderr

(* get_project_status *)

docker_ps_cmd ==
    <<PyStr("docker"), PyStr("ps"), PyStr("--format"),
      PyStr("table {{.Names}}\t{{.Status}}\t{{.Ports}}")>>

status_report(docker_status) ==
    "\n# Intellacc Project Status\n\n## Docker Containers\n"
    \o docker_status.stdout
    \o "\n\n## Recent Project Context\nKey features implemented:\n"
    \o "- LMSR automated market making system\n"
    \o "- Kelly optimal betting suggestions with belief probability slider\n"
    \o "- Real-time leaderboards showing actual RP balances  \n"
    \o "- Database cleanup and optimization\n"
    \o "- Enhanced prediction UI with working sliders\n"
    \o "\n## Current Working Directory\n/home/jayjag/Nextcloud/intellacc.com\n"
    \o "\n## Key Architecture\n- Frontend: VanJS (port 5173)\n"
    \o "- Backend: Express.js (port 3000) \n"
    \o "- Database: PostgreSQL (port 5432)\n"
    \o "- Prediction Engine: Rust (port 3001)\n"

(* analyze_logs *)

DefaultLines == 50

service_arg(arguments) == get(arguments, "service", PyNone)

\* Variant: another default line count.
lines_arg_100(arguments) == get(arguments, "lines", PyInt(100))

lines_arg(arguments) == get(arguments, "lines", PyInt(DefaultLines))

container_map ==
    [s \in {"backend", "frontend", "prediction-engine", "db"} |->
        CASE s = "backend" -> "intellacc_backend"
          [] s = "frontend" -> "intellacc_frontend"
          [] s = "prediction-engine" -> "intellacc_prediction_engine"
          [] s = "db" -> "intellacc_db"]

\* Variant: container_map.get(service, "intellacc_backend").
container_map_get_default(service) ==
    IF service.t = "str" /\ service.s \in DOMAIN container_map
    THEN PyStr(container_map[service.s])
    ELSE PyStr("intellacc_backend")

\* container_map.get(service): None for a key the table does not hold.
container_map_get(service) ==
    IF service.t = "str" /\ service.s \in DOMAIN container_map
    THEN PyStr(container_map[service.s])
    ELSE PyNone

unknown_service(service) == "Unknown service: " \o str(service)

docker_logs_cmd(lines, container) ==
    <<PyStr("docker"), PyStr("logs"), PyStr("--tail"),
      PyStr(str(lines)), container>>

\* {result.stderr if result.stderr else "No errors"}
error_output(stderr) == IF stderr # "" THEN stderr ELSE "No errors"

\* Variant: health read off the captured error stream.
health_status_from_stderr(result) ==
    IF result.stderr = "" THEN "Healthy" ELSE "Issues detected"

\* {'Healthy' if result.returncode == 0 else 'Issues detected'}
health_status(result) ==
    IF result.returncode = 0 THEN "Healthy" ELSE "Issues detected"

\* The f-string of the log report, one parameter per field.
analysis_template(service, lines, stdout, errors, container, status) ==
    "\n# Log Analysis for " \o service
    \o "\n\n## Recent Logs (" \o lines \o " lines)\n" \o stdout
    \o "\n\n## Error Output\n" \o errors
    \o "\n\n## Analysis\n- Container: " \o container
    \o "\n- Lines analyzed: " \o lines
    \o "\n- Status: " \o status \o "\n"

analysis(arguments, result) ==
    analysis_template(str(service_arg(arguments)), str(lines_arg(arguments)),
                      result.stdout, error_output(result.stderr),
                      str(container_map_get(service_arg(arguments))),
                      health_status(result))

(* ------------------------- external operations ------------------------ *)

\* Variant: the process is awaited (asyncio.create_subprocess_exec).
subprocess_run_awaited == FALSE

\* subprocess.run(cmd, ...) is a plain blocking call, never awaited: the
\* coroutine keeps the event-loop thread while the process runs.
subprocess_run_blocks == TRUE

\* The argv handed to the operating system: the str elements' values.
Argv(cmd) == [i \in DOMAIN cmd |-> cmd[i].s]

BadArgs(cmd) == {i \in DOMAIN cmd : cmd[i].t # "str"}

FirstBadArg(cmd) ==
    CHOOSE i \in BadArgs(cmd) : \A j \in BadArgs(cmd) : i <= j

(* ------------------------------- state --------------------------------- *)

Tasks == 1..MaxTasks

\* A handler coroutine: its position, its inputs, the command line it has
\* built, the processes it has spawned and files it has read, the finished
\* process, the exception raised, and what it hands back to its caller.
IdleTask ==
    [pc |-> "idle", name |-> "", arguments |-> NoArgs, cmd |-> <<>>,
     spawned |-> <<>>, reads |-> 0, result |-> <<>>, exc |-> <<>>,
     ret |-> <<>>, raised |-> FALSE]

Init ==
    /\ pending = 0
    /\ arrived = 0
    /\ served = 0
    /\ tasks = [t \in Tasks |-> IdleTask]
    /\ running = 0
    /\ listed = <<>>
    /\ listedAfter = 0

\* return [types.TextContent(type="text", text=...)]
Returning(task, text) ==
    [task EXCEPT !.pc = "done", !.ret = <<TextContent(text)>>]

\* An exception raised inside the handler's try block: the except clause
\* turns it into a text result; one it does not catch leaves the handler.
Raise(task, e) ==
    IF except_Exception(e)
    THEN [Returning(task, error_text(task.name, e)) EXCEPT !.exc = <<e>>]
    ELSE [task EXCEPT !.pc = "done", !.exc = <<e>>, !.raised = TRUE]

\* The rest of a handler once its external process has exited.
Complete(task, result) ==
    CASE task.name = "query_db" -> query_db_result(result)
      [] task.name = "get_project_status" -> status_report(result)
      [] task.name = "analyze_logs" -> analysis(task.arguments, result)

(* ------------------------------ actions -------------------------------- *)

\* The transport receives a request.
Arrive ==
    /\ arrived < MaxRequests
    /\ arrived' = arrived + 1
    /\ pending' = pending + 1
    /\ UNCHANGED <<served, tasks, running, listed, listedAfter>>

\* handle_list_tools: no await, so it runs whole once scheduled.  listed is
\* the list it returned, listedAfter the number of tool calls served before.
ListTools ==
    /\ pending > 0
    /\ running = 0
    /\ listed' = handle_list_tools
    /\ listedAfter' = served
    /\ pending' = pending - 1
    /\ UNCHANGED <<arrived, served, tasks, running>>

\* The event loop schedules handle_call_tool(name, arguments).
Begin(t, name, arguments) ==
    /\ pending > 0
    /\ running = 0
    /\ tasks[t].pc = "idle"
    /\ \A u \in Tasks : u < t => tasks[u].pc # "idle"
    /\ tasks' = [tasks EXCEPT ![t] =
                    [IdleTask EXCEPT !.pc = "entry", !.name = name,
                                     !.arguments = arguments]]
    /\ running' = t
    /\ pending' = pending - 1
    /\ UNCHANGED <<arrived, served, listed, listedAfter>>

\* The branch on the tool name, up to the first external operation.
Dispatch(t) ==
    /\ running = t
    /\ tasks[t].pc = "entry"
    /\ LET task == tasks[t]
           b == Branch(task.name)
           service == service_arg(task.arguments)
           lines == lines_arg(task.arguments)
           container == container_map_get(service)
       IN tasks' = [tasks EXCEPT ![t] =
            CASE b = "query_db" ->
                   [task EXCEPT !.pc = "run",
                                !.cmd = query_db_cmd(task.arguments)]
              [] b = "get_project_status" ->
                   [task EXCEPT !.pc = "open"]
              [] b = "analyze_logs" ->
                   IF container = PyNone
                   THEN Returning(task, unknown_service(service))
                   ELSE [task EXCEPT !.pc = "run",
                                     !.cmd = docker_logs_cmd(lines, container)]
              [] b = "else" ->
                   Returning(task, unknown_tool(task.name))]
    /\ UNCHANGED <<pending, arrived, served, running, listed, listedAfter>>

\* get_project_status: open(...) and f.read() of the project document.
OpenFile(t) ==
    /\ running = t
    /\ tasks[t].pc = "open"
    /\ \/ tasks' = [tasks EXCEPT ![t] =
                      [@ EXCEPT !.pc = "run", !.reads = @ + 1,
                                !.cmd = docker_ps_cmd]]
       \/ \E e \in OpenFaults :
             tasks' = [tasks EXCEPT ![t] = Raise(@, e)]
    /\ UNCHANGED <<pending, arrived, served, running, listed, listedAfter>>

\* subprocess.run starts: a bad argv or a failed spawn raises, otherwise
\* the process is running and the call waits for it.
Run(t) ==
    /\ running = t
    /\ tasks[t].pc = "run"
    /\ LET task == tasks[t]
       IN IF BadArgs(task.cmd) # {}
          THEN /\ tasks' = [tasks EXCEPT ![t] =
                     Raise(task, ArgvFault(task.cmd[FirstBadArg(task.cmd)]))]
               /\ running' = running
          ELSE \/ /\ \E e \in SpawnFaults :
                       tasks' = [tasks EXCEPT ![t] = Raise(task, e)]
                  /\ running' = running
               \/ /\ tasks' = [tasks EXCEPT ![t] =
                       [task EXCEPT !.pc = "wait",
                                    !.spawned = Append(@, Argv(task.cmd))]]
                  /\ running' = IF subprocess_run_blocks THEN t ELSE 0
    /\ UNCHANGED <<pending, arrived, served, listed, listedAfter>>

\* The external process exits; the handler builds its text from the outcome.
Exit(t) ==
    /\ running = IF subprocess_run_blocks THEN t ELSE 0
    /\ tasks[t].pc = "wait"
    /\ \E result \in Outcomes :
          tasks' = [tasks EXCEPT ![t] =
                      [Returning(@, Complete(@, result))
                          EXCEPT !.result = <<result>>]]
    /\ running' = t
    /\ UNCHANGED <<pending, arrived, served, listed, listedAfter>>

\* The handler hands its result (or its exception) to the caller.
Return(t) ==
    /\ running = t
    /\ tasks[t].pc = "done"
    /\ tasks' = [tasks EXCEPT ![t] = IdleTask]
    /\ running' = 0
    /\ served' = served + 1
    /\ UNCHANGED <<pending, arrived, listed, listedAfter>>

Next ==
    \/ Arrive
    \/ ListTools
    \/ \E t \in Tasks, name \in ToolNames, arguments \in ArgMaps :
          Begin(t, name, arguments)
    \/ \E t \in Tasks : Dispatch(t)
    \/ \E t \in Tasks : OpenFile(t)
    \/ \E t \in Tasks : Run(t)
    \/ \E t \in Tasks : Exit(t)
    \/ \E t \in Tasks : Return(t)

Spec == Init /\ [][Next]_vars

(* ------------------------------- claims -------------------------------- *)

Done(t) == tasks[t].pc = "done"

Active(t) == tasks[t].pc # "idle"

\* The text of the single result a finished handler hands back.
TextOf(t) == tasks[t].ret[1].text

OneText(t) ==
    /\ ~tasks[t].raised
    /\ Len(tasks[t].ret) = 1
    /\ tasks[t].ret[1].type = "text"

Omits(t, key) == key \notin DOMAIN tasks[t].arguments

\* The service of the invocation lies outside the four table entries.
ServiceOutside(t) ==
    \/ Omits(t, "service")
    \/ tasks[t].arguments["service"] \notin
          {PyStr("backend"), PyStr("frontend"),
           PyStr("prediction-engine"), PyStr("db")}

\* C1: for every tool name, every argument mapping and every outcome of
\* the environment, a finished dispatch hands back exactly one text result
\* and no exception leaves the handler.
C1_DispatchReturnsOneText ==
    \A t \in Tasks : Done(t) => OneText(t)

\* A required argument is missing, the spawn faulted, one text came back.
C1_Witness ==
    \E t \in Tasks :
        /\ Done(t)
        /\ tasks[t].name = "query_db"
        /\ Omits(t, "query")
        /\ tasks[t].exc # <<>>
        /\ OneText(t)

\* C2: for query_db whose external command ran to completion, the text is
\* "Query executed successfully:" and the stdout exactly when the exit
\* status is 0, and "Query failed:" and the stderr for every other status.
C2_QueryResultByExitStatus ==
    \A t \in Tasks :
        (Done(t) /\ tasks[t].name = "query_db" /\ tasks[t].result # <<>>) =>
            LET r == tasks[t].result[1]
            IN /\ OneText(t)
               /\ (TextOf(t) = "Query executed successfully:\n\n" \o r.stdout)
                     <=> (r.returncode = 0)
               /\ r.returncode # 0 => TextOf(t) = "Query failed:\n" \o r.stderr

C2_Witness ==
    \E t \in Tasks :
        /\ Done(t)
        /\ tasks[t].name = "query_db"
        /\ tasks[t].result # <<>>
        /\ tasks[t].result[1].returncode = 1
        /\ tasks[t].result[1].stderr = "syntax error"
        /\ TextOf(t) = "Query failed:\nsyntax error"

\* C3: analyze_logs with a service outside the table hands back exactly
\* "Unknown service: {service}", and at no point of that invocation is an
\* external process spawned or a command line even built.
C3_UnknownServiceNoProcess ==
    \A t \in Tasks :
        (Active(t) /\ tasks[t].name = "analyze_logs" /\ ServiceOutside(t)) =>
            /\ tasks[t].spawned = <<>>
            /\ tasks[t].cmd = <<>>
            /\ tasks[t].reads = 0
            /\ tasks[t].pc \in {"entry", "done"}
            /\ Done(t) =>
                 /\ OneText(t)
                 /\ TextOf(t) = "Unknown service: "
                                  \o (IF Omits(t, "service") THEN "None"
                                      ELSE tasks[t].arguments["service"].s)

C3_Witness ==
    \E t \in Tasks :
        /\ Done(t)
        /\ tasks[t].name = "analyze_logs"
        /\ ~Omits(t, "service")
        /\ tasks[t].arguments["service"] = PyStr("cache")
        /\ TextOf(t) = "Unknown service: cache"
        /\ tasks[t].spawned = <<>>

\* C4: a tool name outside the three known ones, with any arguments, gets
\* "Unknown tool: " and the name, with no process spawned and no file read.
C4_UnknownToolNoExternalCall ==
    \A t \in Tasks :
        (Active(t) /\ tasks[t].name \notin
              {"query_db", "get_project_status", "analyze_logs"}) =>
            /\ tasks[t].spawned = <<>>
            /\ tasks[t].cmd = <<>>
            /\ tasks[t].reads = 0
            /\ tasks[t].pc \in {"entry", "done"}
            /\ Done(t) =>
                 /\ OneText(t)
                 /\ TextOf(t) = "Unknown tool: " \o tasks[t].name

C4_Witness ==
    \E t \in Tasks :
        /\ Done(t)
        /\ tasks[t].name = "QUERY_DB"
        /\ ~Omits(t, "query")
        /\ TextOf(t) = "Unknown tool: QUERY_DB"
        /\ tasks[t].spawned = <<>>
        /\ tasks[t].reads = 0

\* The decimal numeral of a line count of the inputs.
Numeral(v) ==
    CASE v = PyInt(10) -> "10"
      [] v = PyInt(125) -> "125"

\* The container the fixed table gives a service.
ContainerOf(service) ==
    CASE service = PyStr("backend") -> "intellacc_backend"
      [] service = PyStr("frontend") -> "intellacc_frontend"
      [] service = PyStr("prediction-engine") -> "intellacc_prediction_engine"
      [] service = PyStr("db") -> "intellacc_db"

\* C5: every external command a handler spawns is the one its arguments
\* and the documented defaults determine: query_db runs the query against
\* the database argument, or "intellaccdb" when omitted; analyze_logs asks
\* the container the table maps the service to for exactly `lines`
\* trailing lines, or 50 when omitted.
C5_CommandFromArguments ==
    \A t \in Tasks :
        /\ Len(tasks[t].spawned) <= 1
        /\ \A i \in DOMAIN tasks[t].spawned :
              LET argv == tasks[t].spawned[i]
                  a == tasks[t].arguments
              IN /\ tasks[t].name = "query_db" =>
                      /\ ~Omits(t, "query")
                      /\ argv = <<"docker", "exec", "intellacc_db", "psql",
                                  "-U", "intellacc_user", "-d",
                                  IF Omits(t, "database") THEN "intellaccdb"
                                  ELSE a["database"].s,
                                  "-c", a["query"].s>>
                 /\ tasks[t].name = "analyze_logs" =>
                      /\ ~ServiceOutside(t)
                      /\ argv = <<"docker", "logs", "--tail",
                                  IF Omits(t, "lines") THEN "50"
                                  ELSE Numeral(a["lines"]),
                                  ContainerOf(a["service"])>>

C5_Witness ==
    \E t \in Tasks :
        /\ tasks[t].name = "analyze_logs"
        /\ ~Omits(t, "service") /\ ~Omits(t, "lines")
        /\ tasks[t].arguments["service"] = PyStr("backend")
        /\ tasks[t].arguments["lines"] = PyInt(10)
        /\ tasks[t].spawned =
             << <<"docker", "logs", "--tail", "10", "intellacc_backend">> >>

\* C6: in the log report the health classification is "Healthy" exactly
\* when the exit status is 0 and "Issues detected" otherwise, whatever the
\* captured output is, and the error section is the captured stderr, or
\* "No errors" when the stderr is empty.
C6_HealthFromExitStatusOnly ==
    \A t \in Tasks :
        (Done(t) /\ tasks[t].name = "analyze_logs" /\ tasks[t].result # <<>>) =>
            LET r == tasks[t].result[1]
                a == tasks[t].arguments
                report(status) ==
                    analysis_template(
                        a["service"].s,
                        IF Omits(t, "lines") THEN "50" ELSE Numeral(a["lines"]),
                        r.stdout,
                        IF r.stderr = "" THEN "No errors" ELSE r.stderr,
                        ContainerOf(a["service"]),
                        status)
            IN /\ OneText(t)
               /\ TextOf(t) = report(IF r.returncode = 0 THEN "Healthy"
                                     ELSE "Issues detected")
               /\ (TextOf(t) = report("Healthy")) <=> (r.returncode = 0)

\* Exit status 0 with a non-empty error stream: still "Healthy".
C6_Witness ==
    \E t \in Tasks :
        /\ Done(t)
        /\ tasks[t].name = "analyze_logs"
        /\ tasks[t].result # <<>>
        /\ tasks[t].result[1].returncode = 0
        /\ tasks[t].result[1].stderr = "syntax error"
        /\ tasks[t].arguments = [service |-> PyStr("db")]
        /\ TextOf(t) = analysis_template("db", "50",
                            tasks[t].result[1].stdout, "syntax error",
                            "intellacc_db", "Healthy")

\* C7: every call of handle_list_tools, after any earlier list and tool
\* calls, returns the same three descriptors in the same order.
C7_ListToolsFixed ==
    listed # <<>> =>
        /\ Len(listed) = 3
        /\ listed[1].name = "query_db"
        /\ listed[2].name = "get_project_status"
        /\ listed[3].name = "analyze_logs"
        /\ listed[1].required = {"query"}
        /\ listed[2].required = {}
        /\ listed[3].required = {"service"}

\* A list call that came after tool calls had been served.
C7_Witness ==
    /\ listed # <<>>
    /\ listedAfter >= 2
    /\ Len(listed) = 3

\* C10: invocations never overlap: while a handler is between its start
\* and its return, the wait for its external process included, it holds
\* the event-loop thread, no other handler has started, and at most one
\* external process of the gateway is alive.
C10_NoOverlap ==
    /\ \A t, u \in Tasks : (Active(t) /\ Active(u)) => t = u
    /\ \A t \in Tasks : Active(t) => running = t
    /\ Cardinality({t \in Tasks : tasks[t].pc = "wait"}) <= 1

\* A handler waits for its process while another request is queued.
C10_Witness ==
    \E t \in Tasks :
        /\ tasks[t].pc = "wait"
        /\ pending >= 2

\* The error kind of a finished invocation, if it met one.
ErrorKind(t) ==
    IF tasks[t].name \notin {"query_db", "get_project_status", "analyze_logs"}
    THEN "UnknownTool"
    ELSE IF tasks[t].name = "analyze_logs" /\ ServiceOutside(t)
    THEN "UnknownService"
    ELSE IF tasks[t].exc # <<>>
    THEN "ExecutionFault"
    ELSE IF tasks[t].result # <<>> /\ tasks[t].result[1].returncode # 0
    THEN "ExternalCommandFailure"
    ELSE "none"

\* The texts the same invocation hands back when its process exits with 0.
SuccessTexts(t) ==
    {Complete(tasks[t], r) : r \in {o \in Outcomes : o.returncode = 0}}

\* The returned text describes the error met: it names the unknown tool or
\* service, carries the fault's description, or, for a command that exited
\* nonzero, is at least no text that a successful run hands back.
DescribesError(t) ==
    CASE ErrorKind(t) = "UnknownTool" ->
           TextOf(t) = "Unknown tool: " \o tasks[t].name
      [] ErrorKind(t) = "UnknownService" ->
           TextOf(t) = "Unknown service: " \o str(service_arg(tasks[t].arguments))
      [] ErrorKind(t) = "ExecutionFault" ->
           \E prefix \in {"Error executing query: ",
                          "Error getting project status: ",
                          "Error analyzing logs: "} :
               TextOf(t) = prefix \o tasks[t].exc[1].msg
      [] ErrorKind(t) = "ExternalCommandFailure" ->
           TextOf(t) \notin SuccessTexts(t)

\* C8: each of the four error kinds, in every tool in which it can occur,
\* is caught at the handler boundary and turned into a returned text that
\* describes the error; none reaches the caller as an exception.
C8_ErrorsBecomeDescriptiveText ==
    \A t \in Tasks :
        (Done(t) /\ ErrorKind(t) # "none") =>
            /\ OneText(t)
            /\ DescribesError(t)

\* C9 as stated: query_db without a `query` entry still invokes the
\* database command, which receives an empty query text, and the result
\* is built from that command's outcome.
C9_EmptyQueryReachesCommand ==
    \A t \in Tasks :
        (Done(t) /\ tasks[t].name = "query_db" /\ Omits(t, "query")) =>
            /\ Len(tasks[t].spawned) = 1
            /\ tasks[t].spawned[1][10] = ""
            /\ tasks[t].result # <<>>
            /\ TextOf(t) \in {"Query executed successfully:\n\n" \o o : o \in Stdouts}
                        \cup {"Query failed:\n" \o e : e \in Stderrs}

\* C9 amended: query_db without a `query` entry is rejected by no
\* validation: the command line is built with None as its query text and
\* handed to the process runner, which faults on it before spawning
\* anything; no external process is invoked and the result is
\* "Error executing query: " and the fault's description.
C9_MissingQueryFaultsBeforeSpawn ==
    \A t \in Tasks :
        (Active(t) /\ tasks[t].name = "query_db" /\ Omits(t, "query")) =>
            /\ tasks[t].spawned = <<>>
            /\ tasks[t].result = <<>>
            /\ tasks[t].pc \in {"entry", "run", "done"}
            /\ tasks[t].pc \in {"run", "done"} =>
                 /\ Len(tasks[t].cmd) = 10
                 /\ tasks[t].cmd[10] = PyNone
            /\ Done(t) =>
                 /\ OneText(t)
                 /\ TextOf(t) = "Error executing query: expected str, bytes or os.PathLike object, not NoneType"

C9_Witness ==
    \E t \in Tasks :
        /\ Done(t)
        /\ tasks[t].name = "query_db"
        /\ Omits(t, "query")
        /\ tasks[t].cmd[8] = PyStr("intellaccdb")
        /\ tasks[t].cmd[10] = PyNone
        /\ tasks[t].spawned = <<>>
        /\ TextOf(t) = "Error executing query: expected str, bytes or os.PathLike object, not NoneType"

====
